---------------------------- MODULE Spec2Model ----------------------------
(***************************************************************************)
(* Model of the balloon flight simulation of simulation.py:                *)
(* run_simulation -> (download_gfs_data) -> extract_variable_pygrib ->     *)
(* calculate_initial_parameters -> simulate_balloon_flight_pygrib ->       *)
(* to_csv (specification Spec), and of the GRIB2 downloader of             *)
(* data_downloader.py: ensure_grib_file_exists -> download_gfs_data ->     *)
(* validate_grib_file (specification SpecDownloader).                      *)
(*                                                                         *)
(* The program computes with IEEE doubles; the model computes with         *)
(* integers in fixed units, every product staged so that it stays below    *)
(* 2^31:                                                                   *)
(*    mass            g          volume          litre (0.001 m^3)         *)
(*    gas amount      0.1 mol    density         g/m^3                     *)
(*    temperature     0.1 K      pressure_hpa    0.1 hPa                   *)
(*    velocity        mm/s       acceleration    mm/s^2                    *)
(*    altitude        mm         force           mN                        *)
(*    latitude, longitude  micro-degree          time  s                   *)
(*    scalars and the drag coefficient  1/1000                             *)
(* A quotient is rounded down where the double is rounded to nearest.      *)
(* The one non-finite double the program can produce, NaN (0.0/0.0 when    *)
(* mass_structure is 0), is the value NaN below; comparisons with it are   *)
(* false, as they are for doubles.                                         *)
(* The column 'Wind Direction (deg)' (atan2 of the constant wind) is not   *)
(* carried in the records.                                                 *)
(***************************************************************************)
EXTENDS Integers, Sequences, FiniteSets

(***************************************************************************)
(* Program constants (simulation.py:11-17, 113-116), in model units.       *)
(***************************************************************************)
GRAVITY_ACC == 9807            \* 9.80665 m/s^2 in mm/s^2
R_SPECIFIC == 287058           \* 287.058 J/(kg K) in mJ/(kg K)
MOLAR_MASS_HE == 4003          \* 0.004002602 kg/mol in mg/mol
MOLAR_MASS_H2 == 2016          \* 0.002016 kg/mol in mg/mol
EARTH_RADIUS == 6371000        \* m
delta_t == 30                  \* s
max_altitude == 40000          \* m
max_acceleration == 2000       \* 2.0 m/s^2 in mm/s^2
max_velocity == 10000          \* 10.0 m/s in mm/s

(***************************************************************************)
(* Bound of the model: number_forecasts ranges over 0..MaxForecasts.       *)
(***************************************************************************)
MaxForecasts == 2

(***************************************************************************)
(* Doubles: NaN and the comparisons the program makes.                     *)
(***************************************************************************)
NaN == -(2^30)
IsNaN(x) == x = NaN
FLe(x, y) == ~IsNaN(x) /\ ~IsNaN(y) /\ x <= y
FLt(x, y) == ~IsNaN(x) /\ ~IsNaN(y) /\ x < y
FGt(x, y) == ~IsNaN(x) /\ ~IsNaN(y) /\ x > y
\* Python's min(a, b) and max(a, b): the first argument unless the second
\* compares smaller (larger); a NaN first argument is returned as it is.
PyMin(a, b) == IF FLt(b, a) THEN b ELSE a
PyMax(a, b) == IF FGt(b, a) THEN b ELSE a
Abs(x) == IF x < 0 THEN -x ELSE x
FAdd(x, y) == IF IsNaN(x) \/ IsNaN(y) THEN NaN ELSE x + y
FMul(x, y) == IF IsNaN(x) \/ IsNaN(y) THEN NaN ELSE x * y

RECURSIVE ISqrtIter(_, _, _)
ISqrtIter(n, lo, hi) ==
    IF lo >= hi THEN lo
    ELSE LET mid == (lo + hi + 1) \div 2
         IN IF mid * mid <= n THEN ISqrtIter(n, mid, hi)
                              ELSE ISqrtIter(n, lo, mid - 1)
\* math.sqrt, rounded down
ISqrt(n) == ISqrtIter(n, 0, 46340)

RECURSIVE ICbrtIter(_, _, _)
ICbrtIter(n, lo, hi) ==
    IF lo >= hi THEN lo
    ELSE LET mid == (lo + hi + 1) \div 2
         IN IF mid * mid * mid <= n THEN ICbrtIter(n, mid, hi)
                                    ELSE ICbrtIter(n, lo, mid - 1)
\* x ** (1/3), rounded down
ICbrt(n) == ICbrtIter(n, 0, 1290)

(***************************************************************************)
(* Strings are sequences of characters; str.capitalize().                  *)
(***************************************************************************)
LowerLetters == <<"a","b","c","d","e","f","g","h","i","j","k","l","m",
                  "n","o","p","q","r","s","t","u","v","w","x","y","z">>
UpperLetters == <<"A","B","C","D","E","F","G","H","I","J","K","L","M",
                  "N","O","P","Q","R","S","T","U","V","W","X","Y","Z">>
ToUpper(c) ==
    IF \E i \in 1..26 : LowerLetters[i] = c
    THEN UpperLetters[CHOOSE i \in 1..26 : LowerLetters[i] = c] ELSE c
ToLower(c) ==
    IF \E i \in 1..26 : UpperLetters[i] = c
    THEN LowerLetters[CHOOSE i \in 1..26 : UpperLetters[i] = c] ELSE c
Capitalize(s) ==
    [i \in 1..Len(s) |-> IF i = 1 THEN ToUpper(s[i]) ELSE ToLower(s[i])]

Helium == <<"H","e","l","i","u","m">>
Hydrogen == <<"H","y","d","r","o","g","e","n">>


(***************************************************************************)
(* Launch configurations and weather samples the runs are drawn from.      *)
(***************************************************************************)
Methane == <<"M","e","t","h","a","n","e">>
LowerHydrogen == <<"h","y","d","r","o","g","e","n">>
GrossMasses == {14000, 0, -1000}
LiftGasTypes == {Helium, LowerHydrogen, Methane}
MaxVolumes == {6000, 0}
PercentLiftGas == {23, 500}
DragCoefficients == {470, 50, 0}
AltChosen == {10000, 39900000}
NumberForecasts == 0..MaxForecasts
LaunchLatitudes == {0, 89990000}
LaunchLongitudes == {179990000}
Temperatures == {2881}
Pressures == {101320}
UWinds == {0, 13900}
VWinds == {0, 3000}

Params ==
    [gross_mass : GrossMasses, lift_gas_type : LiftGasTypes,
     max_volume_HAB_limit : MaxVolumes, percent_lift_gas_scalar : PercentLiftGas,
     buoyant_force_scalar : {1000}, drag_coefficient_z : DragCoefficients,
     alt_chosen : AltChosen, number_forecasts : NumberForecasts,
     launch_latitude : LaunchLatitudes, launch_longitude : LaunchLongitudes]

(***************************************************************************)
(* calculate_initial_parameters                                            *)
(***************************************************************************)
\* gas_properties.get(lift_gas_type_capitalized, gas_properties['Helium'])
GasProperties(lift_gas_type_capitalized) ==
    IF lift_gas_type_capitalized = Hydrogen
    THEN [molar_mass |-> MOLAR_MASS_H2, density |-> 90]
    ELSE [molar_mass |-> MOLAR_MASS_HE, density |-> 179]

\* 1.02 if lift_gas_type_capitalized == 'Helium' else 1.10, in 1/100
LiftCapacity(lift_gas_type_capitalized) ==
    IF lift_gas_type_capitalized = Helium THEN 102 ELSE 110

\* the test of line 80 left out (a fault C11 must detect)
NegativeStructureMassUnchecked(mass_structure) == FALSE

\* if mass_structure < 0: raise ValueError
NegativeStructureMass(mass_structure) == mass_structure < 0

\* The value returned, or raised |-> TRUE for the ValueError of line 82;
\* mass_gas is the local of line 77, kept to state the mass balance.
calculate_initial_parameters(p) ==
    LET lift_gas_type_capitalized == Capitalize(p.lift_gas_type)
        gas == GasProperties(lift_gas_type_capitalized)
        lift_capacity == LiftCapacity(lift_gas_type_capitalized)
        total_lift_needed_liters ==
            (((p.gross_mass * 100) \div lift_capacity)
                * (100 + p.percent_lift_gas_scalar)) \div 100
        volume_gas == total_lift_needed_liters
        n_gas == (volume_gas * 100) \div 224
        mass_gas == (n_gas * gas.molar_mass) \div 10000
        mass_structure == p.gross_mass - mass_gas
    IN [raised |-> NegativeStructureMass(mass_structure),
        mass_gas |-> mass_gas,
        n_gas |-> n_gas, mass_structure |-> mass_structure,
        volume_gas |-> volume_gas, rho_gas |-> gas.density,
        lift_capacity |-> lift_capacity]

(***************************************************************************)
(* One pass of the loop body of simulate_balloon_flight_pygrib.            *)
(***************************************************************************)
\* rho_air = p / (R_SPECIFIC * T), p = pressure_hpa * 100
RhoAir(temperature, pressure_hpa) ==
    ((pressure_hpa * 10) * 1000) \div ((R_SPECIFIC * temperature) \div 10000)

\* GRAVITY_ACC * (EARTH_RADIUS / (EARTH_RADIUS + altitude))**2, the ratio
\* taken as 1 - altitude/(EARTH_RADIUS + altitude) in 1/40000
GravityAltitude(altitude) ==
    IF IsNaN(altitude) THEN NaN
    ELSE LET alt_m == altitude \div 1000
             x == (alt_m * 40000) \div (EARTH_RADIUS + alt_m)
             ratio2 == ((40000 - x) * (40000 - x)) \div 40000
         IN (GRAVITY_ACC * ratio2) \div 40000

BuoyantForce(rho_air, rho_gas, volume_gas, gravity_altitude, buoyant_force_scalar) ==
    IF IsNaN(gravity_altitude) THEN NaN
    ELSE ((((((rho_air - rho_gas) * volume_gas) \div 1000) * gravity_altitude)
              \div 1000) * buoyant_force_scalar) \div 1000

\* radius in cm, cross_sectional_area in cm^2
Radius(volume_gas) == ICbrt(((3 * volume_gas * 1000) \div 12566) * 1000)
CrossSectionalArea(volume_gas) ==
    (3142 * Radius(volume_gas) * Radius(volume_gas)) \div 1000

DragForce(volume_gas, rho_air, drag_coefficient_z, u_wind, v_wind, z_vel) ==
    IF volume_gas <= 0 THEN 0
    ELSE IF IsNaN(z_vel) THEN NaN
    ELSE LET velocity_relative ==
                 ISqrt(u_wind * u_wind + v_wind * v_wind + z_vel * z_vel)
         IN (((((drag_coefficient_z * rho_air) \div 2000)
                  * CrossSectionalArea(volume_gas)) \div 10000)
              * ((velocity_relative * velocity_relative) \div 1000)) \div 1000

NetForce(buoyant_force, drag_force, mass_structure, gravity_altitude) ==
    IF IsNaN(buoyant_force) \/ IsNaN(drag_force) \/ IsNaN(gravity_altitude)
    THEN NaN
    ELSE buoyant_force - drag_force - (mass_structure * gravity_altitude) \div 1000

\* net_force / mass_structure: with a zero mass the double is NaN (0/0) or
\* an infinity, which the cap below brings to +-max_acceleration
Divide(net_force, mass_structure) ==
    IF IsNaN(net_force) THEN NaN
    ELSE IF mass_structure = 0
         THEN IF net_force = 0 THEN NaN
              ELSE IF net_force > 0 THEN 2 * max_acceleration
              ELSE -(2 * max_acceleration)
    ELSE (net_force * 1000) \div mass_structure

\* Cap with the value passed through (a fault C17 must detect)
CapMissing(x, cap) == x

\* max(min(x, cap), -cap)
Cap(x, cap) == PyMax(PyMin(x, cap), -cap)

\* 1000 * cos(radians(latitude)): the series to the 8th power
CosMilli(latitude) ==
    LET x == ((latitude \div 1000) * 17453) \div 1000000
        x2 == (x * x) \div 1000
        x4 == (x2 * x2) \div 1000
    IN 1000 - x2 \div 2 + (x2 * x2) \div 24000 - (x4 * x2) \div 720000
            + (x4 * x4) \div 40320000

\* (distance / EARTH_RADIUS) * (180 / math.pi), distance = vel * delta_t
DeltaDegrees(vel) == (((vel * delta_t) \div 10) * 8993) \div 100000
DeltaLat(y_vel) == DeltaDegrees(y_vel)
\* 1000000 * cos(radians(latitude)) within one degree of a pole, where the
\* series above has no digit left: cos(lat) = sin(90 - |lat|), the sine of
\* the small angle taken as the angle; negative beyond the pole
NearPole(latitude) == Abs(latitude) >= 89000000
CosMicroNearPole(latitude) ==
    (((90000000 - Abs(latitude)) \div 10) * 17453) \div 100000
DeltaLon(x_vel, latitude) ==
    IF NearPole(latitude)
    THEN ((DeltaDegrees(x_vel) * 1000) \div CosMicroNearPole(latitude)) * 1000
    ELSE (DeltaDegrees(x_vel) * 1000) \div CosMilli(latitude)

\* longitude wrap-around, lines 178-181
WrapLongitude(longitude) ==
    IF longitude > 180000000 THEN longitude - 360000000
    ELSE IF longitude < -180000000 THEN longitude + 360000000
    ELSE longitude

\* calculate_wind_frequency
calculate_wind_frequency(u, v) ==
    IF ISqrt(u * u + v * v) > 5000 THEN 1 ELSE 0

\* Terminated with the landing test forgotten (a fault C5 must detect)
TerminatedWithoutLandingTest(altitude) ==
    FGt(altitude, max_altitude * 1000)

\* if altitude <= 0 or altitude > max_altitude: return
Terminated(altitude) ==
    FLe(altitude, 0) \/ FGt(altitude, max_altitude * 1000)

(***************************************************************************)
(* State of one call of run_simulation.                                    *)
(***************************************************************************)
VARIABLES
    pc,              \* where run_simulation is
    params,          \* the launch configuration (never assigned after Init)
    file_exists,     \* os.path.exists(filepath) of the GRIB file
    get_requests,    \* number of requests.get calls made by the run
    temperature, pressure_hpa, u_wind, v_wind,
    n_gas, mass_structure, volume_gas, rho_gas, lift_capacity,
    time_sec, latitude, longitude, altitude, z_vel, x_vel, y_vel,
    step, inner,     \* the two loop indices of lines 120-121
    motion_data,     \* the list of records
    csv_written,     \* motion_table.csv was written
    returned,        \* what run_simulation returned (<< >> before it returns)
    error            \* which stage raised, "none" if none

(***************************************************************************)
(* data_downloader.py: download_gfs_data, validate_grib_file and           *)
(* ensure_grib_file_exists.  A GRIB2 file is the sequence of the chunks    *)
(* written to it; a chunk carries one GRIB message, named by its variable, *)
(* or bytes that are no GRIB message ("html").                             *)
(***************************************************************************)
REQUIRED_GRIB_VARIABLES ==
    {"Temperature", "Geopotential height", "Relative humidity",
     "Specific humidity", "U component of wind", "V component of wind"}
\* Retry(total=5, status_forcelist=[429, 500, 502, 503, 504])
RetryTotal == 5
StatusForcelist == {429, 500, 502, 503, 504}

\* Bound of the model: number of calls made to the downloader.
MaxCalls == 3

DateEntries == {"20241001"}
CycleRuntimes == {"06"}
ForecastHours == {24, 48}
\* what the server answers: a status code, or no answer (the request fails)
StatusCodes == {200, 404, 503}
FullBody == <<"Temperature", "Geopotential height", "Relative humidity",
              "Specific humidity", "U component of wind",
              "V component of wind">>
FilteredBody == <<"Temperature", "U component of wind", "V component of wind">>
ErrorPage == <<"html">>
Bodies == {FullBody, FilteredBody, ErrorPage}

\* filename = f"gfs.t{cycle_runtime}z.pgrb2.0p25.f{forecast_hour_str}": the
\* path is fixed by the cycle and the forecast hour, the date is not in it
Filename(cycle_runtime, forecast_hour) == <<cycle_runtime, forecast_hour>>
Filenames == {Filename(c, h) : c \in CycleRuntimes, h \in ForecastHours}
None == << >>
Absent == [exists |-> FALSE, content |-> << >>]
Saved(content) == [exists |-> TRUE, content |-> content]
\* set(grb.name for grb in grbs)
VariablesInFile(file) ==
    {file.content[i] : i \in 1..Len(file.content)} \ {"html"}

\* validate_grib_file without the test (a fault C14 must detect)
validate_grib_file_unchecked(file) == TRUE

\* validate_grib_file: False when a required variable is missing or when
\* pygrib cannot read the file
validate_grib_file(file) ==
    /\ file.exists
    /\ VariablesInFile(file) # {}
    /\ \A var \in REQUIRED_GRIB_VARIABLES : var \in VariablesInFile(file)

VARIABLES
    dl_pc,            \* where the downloader is: "idle" between calls
    dl_call,          \* the call in progress or ended last
    disk,             \* the files of atmospheric_data_dir, by filename
    response,         \* the response of session.get
    retries,          \* retries made by the session for the request
    calls,            \* number of calls made
    download_result,  \* how download_gfs_data ended
    ensure_result     \* how ensure_grib_file_exists ended

downloader == <<dl_pc, dl_call, disk, response, retries, calls,
                download_result, ensure_result>>
NoCall == [fn |-> "none", date_entry |-> "", file_path |-> None]
NoResponse == [status_code |-> 0, body |-> << >>]
NoResult == [kind |-> "none", path |-> None]

weather == <<temperature, pressure_hpa, u_wind, v_wind>>
balloon == <<n_gas, mass_structure, volume_gas, rho_gas, lift_capacity>>
flight == <<time_sec, latitude, longitude, altitude, z_vel, x_vel, y_vel,
            step, inner, motion_data>>
simulation == <<pc, params, file_exists, get_requests, weather, balloon,
                flight, csv_written, returned, error>>
vars == <<simulation, downloader>>

\* no call of the downloader was made and no file is on the disk
DownloaderNotCalled ==
    /\ dl_pc = "idle" /\ dl_call = NoCall
    /\ disk = [f \in Filenames |-> Absent]
    /\ response = NoResponse /\ retries = 0 /\ calls = 0
    /\ download_result = NoResult /\ ensure_result = NoResult

Init ==
    /\ pc = "check_file"
    /\ params \in Params
    /\ file_exists \in BOOLEAN
    /\ get_requests = 0
    /\ temperature = 0 /\ pressure_hpa = 0 /\ u_wind = 0 /\ v_wind = 0
    /\ n_gas = 0 /\ mass_structure = 0 /\ volume_gas = 0 /\ rho_gas = 0
    /\ lift_capacity = 0
    /\ time_sec = 0 /\ latitude = 0 /\ longitude = 0 /\ altitude = 0
    /\ z_vel = 0 /\ x_vel = 0 /\ y_vel = 0 /\ step = 0 /\ inner = 0
    /\ motion_data = << >>
    /\ csv_written = FALSE
    /\ returned = << >>
    /\ error = "none"
    /\ DownloaderNotCalled

\* run_simulation, line 245: the file is there
FileFound ==
    /\ pc = "check_file" /\ file_exists
    /\ pc' = "extract"
    /\ UNCHANGED <<params, file_exists, get_requests, weather, balloon, flight,
                   csv_written, returned, error>>
    /\ UNCHANGED downloader

\* download_gfs_data asked again after a failure (a fault C12 must detect)
download_gfs_data_retrying ==
    /\ pc = "check_file" /\ ~file_exists
    /\ get_requests' = get_requests + 1
    /\ \E status_code \in {200, 404} :
          IF status_code = 200
          THEN /\ file_exists' = TRUE /\ pc' = "extract" /\ error' = error
          ELSE /\ file_exists' = FALSE /\ pc' = "check_file" /\ error' = error
    /\ UNCHANGED <<params, weather, balloon, flight, csv_written, returned>>
    /\ UNCHANGED downloader

\* run_simulation, lines 245-252, and download_gfs_data of simulation.py:
\* one requests.get; any status but 200 raises, and run_simulation re-raises
download_gfs_data ==
    /\ pc = "check_file" /\ ~file_exists
    /\ get_requests' = get_requests + 1
    /\ \E status_code \in {200, 404} :
          IF status_code = 200
          THEN /\ file_exists' = TRUE /\ pc' = "extract" /\ error' = error
          ELSE /\ file_exists' = FALSE /\ pc' = "error" /\ error' = "download"
    /\ UNCHANGED <<params, weather, balloon, flight, csv_written, returned>>
    /\ UNCHANGED downloader

\* run_simulation, lines 257-265: the four extract_variable_pygrib calls
ExtractVariables ==
    /\ pc = "extract"
    /\ \E found \in BOOLEAN, t \in Temperatures, pressure \in Pressures,
          u \in UWinds, v \in VWinds :
          IF found
          THEN /\ temperature' = t
               /\ pressure_hpa' = pressure \div 10
               /\ u_wind' = u /\ v_wind' = v
               /\ pc' = "initial_parameters" /\ error' = error
          ELSE /\ UNCHANGED weather
               /\ pc' = "error" /\ error' = "extract"
    /\ UNCHANGED <<params, file_exists, get_requests, balloon, flight,
                   csv_written, returned>>
    /\ UNCHANGED downloader

\* run_simulation, lines 267-271
CalculateInitialParameters ==
    /\ pc = "initial_parameters"
    /\ LET r == calculate_initial_parameters(params)
       IN IF r.raised
          THEN /\ pc' = "error" /\ error' = "initial_parameters"
               /\ UNCHANGED balloon
          ELSE /\ n_gas' = r.n_gas /\ mass_structure' = r.mass_structure
               /\ volume_gas' = r.volume_gas /\ rho_gas' = r.rho_gas
               /\ lift_capacity' = r.lift_capacity
               /\ pc' = "simulate" /\ error' = error
    /\ UNCHANGED <<params, file_exists, get_requests, weather, flight,
                   csv_written, returned>>
    /\ UNCHANGED downloader

\* TotalSteps with range(number_forecasts - 1) (a fault C6 must detect)
TotalStepsOneShort(number_forecasts) == (number_forecasts - 1) * 20

\* range(number_forecasts) x range(20): the number of passes of the loop body
TotalSteps(number_forecasts) == number_forecasts * 20

\* simulate_balloon_flight_pygrib, lines 99-120: the start of the call
SimulateStart ==
    /\ pc = "simulate"
    /\ motion_data' = << >>
    /\ time_sec' = 0
    /\ latitude' = params.launch_latitude
    /\ longitude' = params.launch_longitude
    /\ altitude' = params.alt_chosen
    /\ z_vel' = 0
    /\ x_vel' = u_wind
    /\ y_vel' = v_wind
    /\ step' = 0 /\ inner' = 0
    /\ pc' = IF TotalSteps(params.number_forecasts) <= 0 THEN "save" ELSE "loop"
    /\ UNCHANGED <<params, file_exists, get_requests, weather, balloon,
                   csv_written, returned, error>>
    /\ UNCHANGED downloader

\* NextTime with time_sec = delta_t (a fault C8 must detect)
NextTimeAssigned(t) == delta_t

\* time_sec += delta_t
NextTime(t) == t + delta_t

\* the record of lines 184-194
CurrentState(t, lat, lon, alt, xv, yv, zv, wind_frequency) ==
    [Time |-> t, Latitude |-> lat, Longitude |-> lon,
     Altitude |-> PyMax(alt, 0),
     X_Vel |-> xv, Y_Vel |-> yv, Z_Vel |-> zv,
     WindFrequency |-> wind_frequency]

\* lines 125-150: the forces and the acceleration of the pass that starts in
\* the current state
rho_air == RhoAir(temperature, pressure_hpa)
gravity_altitude == GravityAltitude(altitude)
buoyant_force ==
    BuoyantForce(rho_air, rho_gas, volume_gas, gravity_altitude,
                 params.buoyant_force_scalar)
drag_force ==
    DragForce(volume_gas, rho_air, params.drag_coefficient_z, u_wind, v_wind,
              z_vel)
net_force == NetForce(buoyant_force, drag_force, mass_structure, gravity_altitude)
acceleration_z == Cap(Divide(net_force, mass_structure), max_acceleration)

\* simulate_balloon_flight_pygrib, lines 122-201: one pass of the loop body
SimulateStep ==
    /\ pc = "loop"
    /\ LET z1 == Cap(FAdd(z_vel, FMul(acceleration_z, delta_t)), max_velocity)
           alt1 == FAdd(altitude, FMul(z1, delta_t))
           lat1 == latitude + DeltaLat(v_wind)
           lon1 == WrapLongitude(longitude + DeltaLon(u_wind, latitude))
       IN /\ time_sec' = NextTime(time_sec)
          /\ z_vel' = z1
          /\ altitude' = alt1
          /\ x_vel' = u_wind
          /\ y_vel' = v_wind
          /\ latitude' = lat1
          /\ longitude' = lon1
          /\ motion_data' = Append(motion_data,
                 CurrentState(time_sec', lat1, lon1, alt1, u_wind, v_wind, z1,
                              calculate_wind_frequency(u_wind, v_wind)))
          /\ IF Terminated(alt1)
             THEN /\ pc' = "save" /\ UNCHANGED <<step, inner>>
             ELSE IF inner + 1 < 20
             THEN /\ pc' = "loop" /\ inner' = inner + 1 /\ step' = step
             ELSE /\ inner' = 0 /\ step' = step + 1
                  /\ pc' = IF (step + 1) * 20 < TotalSteps(params.number_forecasts)
                           THEN "loop" ELSE "save"
    /\ UNCHANGED <<params, file_exists, get_requests, weather, balloon,
                   csv_written, returned, error>>
    /\ UNCHANGED downloader

\* run_simulation, lines 283-291
SaveResults ==
    /\ pc = "save"
    /\ \E saved \in BOOLEAN :
          IF saved
          THEN /\ csv_written' = TRUE
               /\ returned' = [motion_table |-> motion_data]
               /\ pc' = "done" /\ error' = error
          ELSE /\ pc' = "error" /\ error' = "save"
               /\ UNCHANGED <<csv_written, returned>>
    /\ UNCHANGED <<params, file_exists, get_requests, weather, balloon, flight>>
    /\ UNCHANGED downloader

Next ==
    \/ FileFound
    \/ download_gfs_data
    \/ ExtractVariables
    \/ CalculateInitialParameters
    \/ SimulateStart
    \/ SimulateStep
    \/ SaveResults

Spec == Init /\ [][Next]_vars

(***************************************************************************)
(* Calls of the downloader: ensure_grib_file_exists (app.py, predict) and  *)
(* download_gfs_data (test_download.py, __main__).                         *)
(***************************************************************************)
\* run_simulation is not called while the downloader is exercised
SimulationNotCalled ==
    /\ pc = "not_called"
    /\ params = [gross_mass |-> 14000, lift_gas_type |-> Helium,
                 max_volume_HAB_limit |-> 6000, percent_lift_gas_scalar |-> 23,
                 buoyant_force_scalar |-> 1000, drag_coefficient_z |-> 470,
                 alt_chosen |-> 10000, number_forecasts |-> 1,
                 launch_latitude |-> 0, launch_longitude |-> 0]
    /\ file_exists = FALSE /\ get_requests = 0
    /\ temperature = 0 /\ pressure_hpa = 0 /\ u_wind = 0 /\ v_wind = 0
    /\ n_gas = 0 /\ mass_structure = 0 /\ volume_gas = 0 /\ rho_gas = 0
    /\ lift_capacity = 0
    /\ time_sec = 0 /\ latitude = 0 /\ longitude = 0 /\ altitude = 0
    /\ z_vel = 0 /\ x_vel = 0 /\ y_vel = 0 /\ step = 0 /\ inner = 0
    /\ motion_data = << >>
    /\ csv_written = FALSE /\ returned = << >> /\ error = "none"

\* the directory holds, for each filename, no file or a complete one
InitDownloader ==
    /\ SimulationNotCalled
    /\ dl_pc = "idle" /\ dl_call = NoCall
    /\ disk \in [Filenames -> {Absent, Saved(FullBody)}]
    /\ response = NoResponse /\ retries = 0 /\ calls = 0
    /\ download_result = NoResult /\ ensure_result = NoResult

\* download_gfs_data raises; ensure_grib_file_exists, lines 204-206, catches
\* the exception and returns None
DownloadRaises ==
    /\ download_result' = [kind |-> "raised", path |-> None]
    /\ ensure_result' = IF dl_call.fn = "ensure_grib_file_exists"
                        THEN [kind |-> "returned", path |-> None]
                        ELSE ensure_result
    /\ dl_pc' = "idle"

\* ensure_grib_file_exists, lines 185-203: the file is there, or the
\* download is started
EnsureGribFileExists ==
    /\ dl_pc = "idle" /\ calls < MaxCalls
    /\ \E date_entry \in DateEntries, cycle_runtime \in CycleRuntimes,
          forecast_hour \in ForecastHours :
          LET file_path == Filename(cycle_runtime, forecast_hour)
          IN /\ dl_call' = [fn |-> "ensure_grib_file_exists",
                            date_entry |-> date_entry, file_path |-> file_path]
             /\ IF disk[file_path].exists
                THEN /\ ensure_result' = [kind |-> "returned", path |-> file_path]
                     /\ dl_pc' = "idle"
                ELSE /\ ensure_result' = NoResult
                     /\ dl_pc' = "session_get"
    /\ calls' = calls + 1
    /\ download_result' = NoResult
    /\ response' = NoResponse
    /\ retries' = 0
    /\ UNCHANGED <<disk, simulation>>

\* download_gfs_data called directly (test_download.py, __main__), lines
\* 113-135
DownloadGfsData ==
    /\ dl_pc = "idle" /\ calls < MaxCalls
    /\ \E date_entry \in DateEntries, cycle_runtime \in CycleRuntimes,
          forecast_hour \in ForecastHours :
          dl_call' = [fn |-> "download_gfs_data", date_entry |-> date_entry,
                      file_path |-> Filename(cycle_runtime, forecast_hour)]
    /\ dl_pc' = "session_get"
    /\ calls' = calls + 1
    /\ download_result' = NoResult
    /\ ensure_result' = NoResult
    /\ response' = NoResponse
    /\ retries' = 0
    /\ UNCHANGED <<disk, simulation>>

\* download_gfs_data, lines 137-143 and 156-163: session.get and the test
\* of the status; with 200 the file is opened for writing
SessionGet ==
    /\ dl_pc = "session_get"
    /\ \E answered \in BOOLEAN, status_code \in StatusCodes, body \in Bodies :
          IF ~answered
          THEN \* RequestException: no answer
               /\ DownloadRaises
               /\ UNCHANGED <<disk, response, retries>>
          ELSE IF status_code \in StatusForcelist
          THEN IF retries < RetryTotal
               THEN /\ retries' = retries + 1
                    /\ UNCHANGED <<dl_pc, disk, response, download_result,
                                   ensure_result>>
               ELSE \* RetryError, a RequestException
                    /\ DownloadRaises
                    /\ UNCHANGED <<disk, response, retries>>
          ELSE IF status_code = 200
          THEN /\ response' = [status_code |-> status_code, body |-> body]
               /\ disk' = [disk EXCEPT ![dl_call.file_path] = Saved(<< >>)]
               /\ dl_pc' = "iter_content"
               /\ UNCHANGED <<retries, download_result, ensure_result>>
          ELSE /\ response' = [status_code |-> status_code, body |-> << >>]
               /\ DownloadRaises
               /\ UNCHANGED <<disk, retries>>
    /\ UNCHANGED <<dl_call, calls, simulation>>

\* download_gfs_data, lines 143-146: one chunk is read and written
WriteChunk ==
    /\ dl_pc = "iter_content"
    /\ LET file == disk[dl_call.file_path]
       IN /\ Len(file.content) < Len(response.body)
          /\ disk' = [disk EXCEPT ![dl_call.file_path] =
                 Saved(Append(file.content,
                              response.body[Len(file.content) + 1]))]
    /\ UNCHANGED <<dl_pc, dl_call, response, retries, calls, download_result,
                   ensure_result, simulation>>

\* download_gfs_data, lines 144 and 158-160: reading the next chunk fails
\* with a RequestException, which is logged and raised again
StreamFails ==
    /\ dl_pc = "iter_content"
    /\ Len(disk[dl_call.file_path].content) < Len(response.body)
    /\ DownloadRaises
    /\ UNCHANGED <<dl_call, disk, response, retries, calls, simulation>>

\* download_gfs_data, lines 147-155: the body is written; the file is
\* validated and its path returned, or it is removed and an Exception raised
ValidateGribFile ==
    /\ dl_pc = "iter_content"
    /\ Len(disk[dl_call.file_path].content) = Len(response.body)
    /\ IF validate_grib_file(disk[dl_call.file_path])
       THEN /\ download_result' = [kind |-> "returned",
                                   path |-> dl_call.file_path]
            /\ ensure_result' = IF dl_call.fn = "ensure_grib_file_exists"
                                THEN [kind |-> "returned",
                                      path |-> dl_call.file_path]
                                ELSE ensure_result
            /\ dl_pc' = "idle"
            /\ disk' = disk
       ELSE /\ disk' = [disk EXCEPT ![dl_call.file_path] = Absent]
            /\ DownloadRaises
    /\ UNCHANGED <<dl_call, response, retries, calls, simulation>>

NextDownloader ==
    \/ EnsureGribFileExists
    \/ DownloadGfsData
    \/ SessionGet
    \/ WriteChunk
    \/ StreamFails
    \/ ValidateGribFile

SpecDownloader == InitDownloader /\ [][NextDownloader]_vars

(***************************************************************************)
(* Vocabulary of the claims.                                               *)
(***************************************************************************)
\* the configurations the data model admits: a known gas, a positive mass,
\* a positive max volume
KnownGas == Capitalize(params.lift_gas_type) \in {Helium, Hydrogen}
PositiveMassAndVolume ==
    params.gross_mass > 0 /\ params.max_volume_HAB_limit > 0
WellFormed == KnownGas /\ PositiveMassAndVolume
\* calculate_initial_parameters returned (the configuration was accepted)
Accepted ==
    \/ pc \in {"simulate", "loop", "save", "done"}
    \/ pc = "error" /\ error = "save"
\* simulate_balloon_flight_pygrib returned
SimReturned ==
    \/ pc \in {"save", "done"}
    \/ pc = "error" /\ error = "save"
NumRecords == Len(motion_data)
LastRecord == motion_data[NumRecords]
\* the run ended by landing: the last pass brought the altitude to <= 0
Landed == SimReturned /\ NumRecords > 0 /\ FLe(altitude, 0)
\* every configured pass was executed and the last one did not land
ExhaustedWithoutLanding ==
    /\ SimReturned
    /\ NumRecords > 0
    /\ NumRecords = params.number_forecasts * 20
    /\ ~Landed

(***************************************************************************)
(* C1: the phase only moves forward: once a step of a run has a negative   *)
(* vertical velocity (Descending), no later step of the run has a positive *)
(* one (Ascending).  Stated for the well-formed configurations.            *)
(***************************************************************************)
C1_NoReAscent ==
    WellFormed =>
        \A i \in 1..NumRecords : \A j \in 1..NumRecords :
            (i < j /\ FLt(motion_data[i].Z_Vel, 0))
                => ~FGt(motion_data[j].Z_Vel, 0)

(***************************************************************************)
(* C2: while the balloon ascends the gas volume strictly increases from    *)
(* step to step, and a step turns from ascending to descending only with   *)
(* the volume at the max-volume limit.  Stated for the well-formed         *)
(* configurations.                                                         *)
(***************************************************************************)
C2_BurstAtMaxVolume ==
    [][(WellFormed /\ pc = "loop" /\ motion_data' # motion_data) =>
          /\ (FGt(z_vel', 0) => volume_gas' > volume_gas)
          /\ ((z_vel >= 0 /\ FLt(z_vel', 0))
                 => volume_gas' >= params.max_volume_HAB_limit)]_vars

(***************************************************************************)
(* C3: the gas volume of an accepted configuration, as returned by         *)
(* calculate_initial_parameters and as used by every step, is at most      *)
(* max_volume_HAB_limit.  Stated for the well-formed configurations.       *)
(***************************************************************************)
C3_VolumeWithinLimit ==
    (WellFormed /\ Accepted) => volume_gas <= params.max_volume_HAB_limit

(***************************************************************************)
(* C4: when a run ends by landing, the final record has altitude >= 0 and  *)
(* X, Y and Z velocity all zero.  Stated for the well-formed               *)
(* configurations.                                                         *)
(***************************************************************************)
C4_LandingRecordAtRest ==
    (WellFormed /\ Landed) =>
        /\ LastRecord.Altitude >= 0
        /\ LastRecord.X_Vel = 0
        /\ LastRecord.Y_Vel = 0
        /\ LastRecord.Z_Vel = 0

(***************************************************************************)
(* C5: landing stops the run.  The pass that brings the altitude to <= 0   *)
(* is the last one: the loop is left at once, nothing is appended once the *)
(* loop is left, and so every record but the last was produced at an       *)
(* altitude that is not <= 0 (for a number: > 0).                          *)
(***************************************************************************)
C5_RecordsBeforeLast ==
    /\ \A i \in 1..(NumRecords - 1) :
          /\ ~FLe(motion_data[i].Altitude, 0)
          /\ ~IsNaN(motion_data[i].Altitude) => motion_data[i].Altitude > 0
    /\ (NumRecords > 0 /\ FLe(altitude, 0)) => pc # "loop"
C6_EarlyReturnIsLanding ==
    (WellFormed /\ SimReturned /\ NumRecords < params.number_forecasts * 20)
        => FLe(altitude, 0)
(***************************************************************************)
(* C6 amended: a run that returns before number_forecasts x 20 passes were *)
(* executed has landed (altitude <= 0) or has risen above max_altitude.    *)
(***************************************************************************)
C6_EarlyReturnIsAltitudeLimit ==
    (SimReturned /\ NumRecords < params.number_forecasts * 20)
        => (FLe(altitude, 0) \/ FGt(altitude, max_altitude * 1000))
C6_Witness ==
    /\ pc = "done" /\ NumRecords > 0
    /\ NumRecords < params.number_forecasts * 20
    /\ FGt(altitude, max_altitude * 1000)

(***************************************************************************)
(* C7: a run whose duration is exhausted without landing returns its       *)
(* trajectory together with an explicit did-not-land indication.  Stated   *)
(* for the well-formed configurations.                                     *)
(***************************************************************************)
C7_DidNotLandIndication ==
    (WellFormed /\ pc = "done" /\ ExhaustedWithoutLanding)
        => /\ "motion_table" \in DOMAIN returned
           /\ "did_not_land" \in DOMAIN returned

(***************************************************************************)
(* C8: one record per executed pass, appended in order and never changed   *)
(* afterwards; record i carries the time i * 30 s, so the time column is   *)
(* strictly increasing with the uniform step delta_t up to the last record.*)
(***************************************************************************)
C8_TimeColumn ==
    /\ \A i \in 1..NumRecords : motion_data[i].Time = i * 30
    /\ \A i \in 1..(NumRecords - 1) :
          motion_data[i + 1].Time = motion_data[i].Time + 30
    /\ pc \in {"loop", "save", "done"} => time_sec = NumRecords * 30
    /\ pc = "loop" => NumRecords = step * 20 + inner
C8_AppendOnly ==
    /\ SubSeq(motion_data', 1, NumRecords) = motion_data
    /\ (pc = "loop") => Len(motion_data') = NumRecords + 1
    /\ (pc # "loop") => motion_data' = motion_data
C8_Trajectory == []C8_TimeColumn /\ [][C8_AppendOnly]_vars
C8_Witness ==
    pc = "done" /\ NumRecords >= 20 /\ LastRecord.Time = NumRecords * 30

(***************************************************************************)
(* C9: a lift_gas_type other than Helium or Hydrogen is refused by         *)
(* calculate_initial_parameters: the run is not accepted and no step is    *)
(* performed.  Stated for the configurations of positive mass and volume.  *)
(***************************************************************************)
C9_UnknownGasRejected ==
    (PositiveMassAndVolume /\ ~KnownGas)
        => (~Accepted /\ motion_data = << >>)

(***************************************************************************)
(* C10: a configuration with gross_mass <= 0 or max_volume_HAB_limit <= 0  *)
(* is refused before any step: it is not accepted and no record is         *)
(* produced.  Stated for the configurations of a known gas.                *)
(***************************************************************************)
C10_NonPositiveRejected ==
    (KnownGas /\ (params.gross_mass <= 0 \/ params.max_volume_HAB_limit <= 0))
        => (~Accepted /\ motion_data = << >>)

(***************************************************************************)
(* C11: mass balance.  Whenever calculate_initial_parameters returned, the *)
(* structure mass is >= 0; whenever the gas mass it computes exceeds the   *)
(* gross mass it raises, and run_simulation ends with that error: no       *)
(* balloon value is assigned, no step is executed, nothing is written, and *)
(* nothing happens afterwards.                                             *)
(***************************************************************************)
InitialParametersCalled == pc \notin {"check_file", "extract", "initial_parameters"}
                              /\ error \notin {"download", "extract"}
InitialParametersRaised == pc = "error" /\ error = "initial_parameters"
C11_State ==
    /\ Accepted => mass_structure >= 0
    /\ (InitialParametersCalled
          /\ calculate_initial_parameters(params).mass_gas > params.gross_mass)
            => InitialParametersRaised
    /\ InitialParametersRaised =>
          /\ calculate_initial_parameters(params).mass_gas > params.gross_mass
          /\ motion_data = << >> /\ step = 0 /\ inner = 0 /\ time_sec = 0
          /\ mass_structure = 0 /\ volume_gas = 0
          /\ ~csv_written /\ returned = << >>
C11_MassBalance ==
    /\ []C11_State
    /\ [][~InitialParametersRaised]_vars
C11_Witness ==
    /\ InitialParametersRaised
    /\ params.gross_mass = 14000 /\ params.percent_lift_gas_scalar = 500
    /\ calculate_initial_parameters(params).mass_gas = 14716

(***************************************************************************)
(* C12: unavailable weather data ends the run at once.  When the download  *)
(* or the extraction fails, run_simulation ends with that error after at   *)
(* most one request (no retry): no initial parameter is computed, no step  *)
(* is executed, motion_table.csv is not written, and nothing happens       *)
(* afterwards.  All weather retrieval precedes the first step: the passes  *)
(* of the loop make no request and leave the file and the weather values   *)
(* as they are.                                                            *)
(***************************************************************************)
WeatherUnavailable == error \in {"download", "extract"}
C12_State ==
    /\ get_requests <= 1
    /\ WeatherUnavailable =>
          /\ pc = "error"
          /\ balloon = <<0, 0, 0, 0, 0>>
          /\ motion_data = << >> /\ step = 0 /\ inner = 0 /\ time_sec = 0
          /\ ~csv_written /\ returned = << >>
    /\ error = "download" => (get_requests = 1 /\ ~file_exists)
    /\ pc \in {"initial_parameters", "simulate", "loop", "save", "done"}
          => (file_exists /\ temperature \in Temperatures)
C12_Step ==
    /\ ~WeatherUnavailable
    /\ pc \in {"initial_parameters", "simulate", "loop", "save"}
          => UNCHANGED <<file_exists, get_requests, weather>>
C12_WeatherErrorEndsRun == []C12_State /\ [][C12_Step]_vars
C12_Witness ==
    pc = "error" /\ error = "download" /\ get_requests = 1

(***************************************************************************)
(* Vocabulary of the claims about the downloader.                          *)
(***************************************************************************)
\* the call made last has ended
CallEnded == dl_pc = "idle" /\ dl_call.fn # "none"
\* download_gfs_data was entered by the call made last and has ended
DownloadEnded ==
    /\ CallEnded
    /\ \/ dl_call.fn = "download_gfs_data"
       \/ download_result.kind # "none"
TargetFile == disk[dl_call.file_path]

(***************************************************************************)
(* C13: whenever download_gfs_data of data_downloader ends with an error   *)
(* no file is left at the target path, so that a later                     *)
(* ensure_grib_file_exists downloads again.  Stated for the downloads that *)
(* ensure_grib_file_exists starts, which find no file at the path.         *)
(***************************************************************************)
C13_NoFileLeftAfterError ==
    (DownloadEnded /\ dl_call.fn = "ensure_grib_file_exists"
        /\ download_result.kind = "raised")
            => ~TargetFile.exists

(***************************************************************************)
(* C14: download_gfs_data of data_downloader ends in one of two ways: it   *)
(* returns the path of the saved file, and then the server answered 200,   *)
(* the whole body is saved at that path and the file holds every required  *)
(* GRIB variable; or it raises, and then no path is returned.              *)
(***************************************************************************)
C14_ReturnsValidatedPathOrRaises ==
    /\ DownloadEnded => download_result.kind \in {"returned", "raised"}
    /\ download_result.kind = "returned" =>
          /\ CallEnded
          /\ download_result.path = dl_call.file_path
          /\ download_result.path \in Filenames
          /\ response.status_code = 200
          /\ TargetFile = Saved(response.body)
          /\ \A var \in REQUIRED_GRIB_VARIABLES :
                \E i \in 1..Len(TargetFile.content) : TargetFile.content[i] = var
    /\ download_result.kind = "raised" =>
          /\ CallEnded
          /\ download_result.path = None
    /\ download_result.kind = "none" =>
          (dl_pc # "idle" \/ dl_call.fn # "download_gfs_data")
C14_Witness ==
    /\ dl_call.fn = "download_gfs_data"
    /\ download_result = [kind |-> "returned", path |-> Filename("06", 24)]
    /\ TargetFile = Saved(FullBody)
    /\ retries > 0

(***************************************************************************)
(* C15: ensure_grib_file_exists returns the path of a file that is there,  *)
(* or raises; it never returns without a path.                             *)
(***************************************************************************)
C15_EnsureReturnsPathOrRaises ==
    (CallEnded /\ dl_call.fn = "ensure_grib_file_exists") =>
        \/ ensure_result.kind = "raised"
        \/ /\ ensure_result.kind = "returned"
           /\ ensure_result.path # None
           /\ ensure_result.path = dl_call.file_path
           /\ TargetFile.exists

(***************************************************************************)
(* C16: the drag force opposes the motion relative to the air and is zero  *)
(* when that motion is zero.  In every pass the term that drag adds to the *)
(* net vertical force is upward (>= 0) when the balloon descends, downward *)
(* (<= 0) when it ascends, and zero when the balloon moves horizontally    *)
(* with the wind and has no vertical velocity.  Stated for the well-formed *)
(* configurations.                                                         *)
(***************************************************************************)
\* what drag_force adds to net_force
DragTerm ==
    net_force - NetForce(buoyant_force, 0, mass_structure, gravity_altitude)
C16_DragOpposesRelativeMotion ==
    (WellFormed /\ pc = "loop") =>
        /\ z_vel < 0 => DragTerm >= 0
        /\ z_vel > 0 => DragTerm <= 0
        /\ (z_vel = 0 /\ x_vel = u_wind /\ y_vel = v_wind) => DragTerm = 0

(***************************************************************************)
(* C17: the caps.  With a structure mass > 0, every record has             *)
(* |Z_Vel| <= 10 m/s, the acceleration applied in every pass is within     *)
(* [-2, 2] m/s^2, and a pass changes the (unclamped) altitude by at most   *)
(* 300 m.                                                                  *)
(***************************************************************************)
C17_State ==
    mass_structure > 0 =>
        /\ \A i \in 1..NumRecords :
              /\ ~IsNaN(motion_data[i].Z_Vel)
              /\ Abs(motion_data[i].Z_Vel) <= 10000
        /\ pc = "loop" =>
              /\ ~IsNaN(acceleration_z)
              /\ Abs(acceleration_z) <= 2000
C17_Step ==
    (pc = "loop" /\ mass_structure > 0) =>
        /\ ~IsNaN(altitude')
        /\ Abs(altitude' - altitude) <= 300000
        /\ Abs(z_vel' - z_vel) <= 2000 * 30
C17_Caps == []C17_State /\ [][C17_Step]_vars
C17_Witness ==
    /\ pc = "loop" /\ mass_structure > 0 /\ NumRecords >= 2
    /\ motion_data[1].Z_Vel = 10000
    /\ LastRecord.Z_Vel = -10000
    /\ acceleration_z = -2000

(***************************************************************************)
(* C18: for a launch position with latitude in [-90, 90] and longitude in  *)
(* [-180, 180], every record has Latitude in [-90, 90] and Longitude in    *)
(* [-180, 180].  Stated for the well-formed configurations.                *)
(***************************************************************************)
LaunchInRange ==
    /\ Abs(params.launch_latitude) <= 90000000
    /\ Abs(params.launch_longitude) <= 180000000
C18_PositionInRange ==
    (WellFormed /\ LaunchInRange) =>
        \A i \in 1..NumRecords :
            /\ Abs(motion_data[i].Latitude) <= 90000000
            /\ Abs(motion_data[i].Longitude) <= 180000000

=============================================================================

